---------------------------- MODULE Spec2Model ----------------------------
(***************************************************************************)
(* Hybrid retrieval core of the recipe RAG pipeline (code/C8-reproduction): *)
(* RetrievalOptimizationModule (hybrid_search, _rrf_rerank,                 *)
(* metadata_filtered_search) and DataPreparation.get_parent_document.       *)
(*                                                                         *)
(* The dense and the sparse retriever are external: a query makes each of  *)
(* them hand back an ordered list of the Document objects it holds, so the *)
(* two lists are inputs chosen with \E.  Python objects are modelled with  *)
(* their identity: a retrieved Document is a reference <<store, i>> and    *)
(* its metadata dict is read and written through Meta / SetScore.          *)
(***************************************************************************)
EXTENDS Integers, Sequences, FiniteSets, TLC

\* ------------------------------------------------------------------ bounds
\* longest result list a retriever hands back in the model
MaxLen == 3
\* largest top_k a caller asks for
MaxTopK == 2
\* longest child_chunks list given to get_parent_document
MaxChildren == 3
\* the longest list a retriever returns to a thread running beside another
MaxConcLen == 1
\* how many uuid4 values ingestion draws at most
MaxUuid == 4
\* how many Documents the vector index holds at most
MaxIndexed == 4

\* ------------------------------------------------------- program constants
\* search_kwargs={"k": 5} and BM25Retriever k=5
RetrieverK == 5
\* hybrid_search(query, top_k=top_k*3)
OverFetch == 3

Min(a, b) == IF a < b THEN a ELSE b

Range(s) == {s[i] : i \in 1..Len(s)}

\* Python's None
None == "<None>"

\* ---------------------------------------------------------------- floats
(***************************************************************************)
(* The scores are Python floats (IEEE-754 binary64, round to nearest even).*)
(* Every value that occurs is a positive multiple of 2^-56 below 8, so a   *)
(* float x is the integer x * 2^56 kept as <<hi, lo>> = hi * 2^29 + lo.    *)
(* A float has 53 significant bits: a value in [2^(52+j), 2^(53+j)) is a   *)
(* multiple of 2^j.                                                        *)
(***************************************************************************)
Limb == 2^29

FZero == <<0, 0>>

FOne == <<2^27, 0>>

FLess(a, b) == a[1] < b[1] \/ (a[1] = b[1] /\ a[2] < b[2])

\* the spacing of the floats around the exact value <<hi, lo>>
Ulp(hi) ==
    IF hi < 2^24 THEN 1
    ELSE IF hi < 2^25 THEN 2
    ELSE IF hi < 2^26 THEN 4
    ELSE IF hi < 2^27 THEN 8
    ELSE IF hi < 2^28 THEN 16
    ELSE IF hi < 2^29 THEN 32
    ELSE 64

\* round the exact value <<hi, lo>> to the nearest float, ties to even
FRound(hi, lo) ==
    LET u    == Ulp(hi)
        r    == lo % u
        down == lo - r
        up   == (2 * r > u) \/ (2 * r = u /\ (down \div u) % 2 = 1)
        lo2  == IF up THEN down + u ELSE down
    IN  IF lo2 >= Limb THEN <<hi + 1, lo2 - Limb>> ELSE <<hi, lo2>>

\* a + b of two floats
FAdd(a, b) ==
    LET lo == a[2] + b[2]
        c  == IF lo >= Limb THEN 1 ELSE 0
    IN  FRound(a[1] + b[1] + c, lo - c * Limb)

\* floor(2^56 / d) as <<hi, lo>>, and 2^56 mod d, by long division in the
\* digits 2^27, 2^14, 2^15 of 2^56
DivPow56(d) ==
    LET hi == 2^27 \div d
        r1 == 2^27 % d
        t1 == (r1 * 2^14) \div d
        r2 == (r1 * 2^14) % d
        t2 == (r2 * 2^15) \div d
        r3 == (r2 * 2^15) % d
    IN  <<(<<hi, t1 * 2^15 + t2>>), r3>>

\* 1.0 / d for an integer d in 2..16: 2^56 / d rounded to the nearest float.
\* The exact quotient is q + rem / d; below the float's last bit lies
\* (r + rem / d) / u, which is compared with one half.
FRecip(d) ==
    LET qr   == DivPow56(d)
        q    == qr[1]
        rem  == qr[2]
        u    == Ulp(q[1])
        r    == q[2] % u
        down == q[2] - r
        twice == 2 * (r * d + rem)
        up   == (twice > u * d) \/ (twice = u * d /\ (down \div u) % 2 = 1)
        lo2  == IF up THEN down + u ELSE down
    IN  IF lo2 >= Limb THEN <<q[1] + 1, lo2 - Limb>> ELSE <<q[1], lo2>>

MaxDenominator == OverFetch * MaxTopK + RetrieverK

RecipTable == [d \in 2..MaxDenominator |-> FRecip(d)]

\* the formula of the code's comment, 1 / (k + rank), in place of the code's
ContributionOffByOne(rank, k) == FRecip(rank + k)

\* score = 1.0 / (rank + k + 1)
Contribution(rank, k) == RecipTable[rank + k + 1]

\* ---------------------------------------------------------------- corpus
(***************************************************************************)
(* The knowledge base the queries are served from: two recipes, loaded by  *)
(* load_data and split by chunk_documents into four chunks.  Chunks c1 and *)
(* c2 are the same boilerplate text under two recipes; c3 lies before the  *)
(* first second-level header, so it carries no "h2" field.                 *)
(***************************************************************************)
CorpusDocuments ==
    << [page_content |-> "recipe A",
        metadata |-> [parent_id |-> "P1", category |-> "soup",
                      difficulty |-> "easy"]],
       [page_content |-> "recipe B",
        metadata |-> [parent_id |-> "P2", category |-> "dessert",
                      difficulty |-> "hard"]] >>

CorpusChunks ==
    << [page_content |-> "t1",
        metadata |-> [parent_id |-> "P1", chunk_id |-> "c1", category |-> "soup",
                      difficulty |-> "easy", h2 |-> "ingredients"]],
       [page_content |-> "t1",
        metadata |-> [parent_id |-> "P2", chunk_id |-> "c2", category |-> "dessert",
                      difficulty |-> "hard", h2 |-> "ingredients"]],
       [page_content |-> "t2",
        metadata |-> [parent_id |-> "P1", chunk_id |-> "c3", category |-> "soup",
                      difficulty |-> "easy"]],
       [page_content |-> "t3",
        metadata |-> [parent_id |-> "P2", chunk_id |-> "c4", category |-> "dessert",
                      difficulty |-> "hard", h2 |-> "steps"]] >>

\* the files the corpus was loaded from
CorpusFiles == [path \in {"soup/a.md", "dessert/b.md"} |->
                   IF path = "soup/a.md" THEN "recipe A" ELSE "recipe B"]

CorpusMap == [id \in {"c1", "c2", "c3", "c4"} |->
                 IF id \in {"c1", "c3"} THEN "P1" ELSE "P2"]

\* a chunk whose parent is no longer stored, and a Document without parent_id
StaleChunk ==
    [page_content |-> "t9",
     metadata |-> [parent_id |-> "P9", chunk_id |-> "c9", category |-> "soup",
                   difficulty |-> "easy"]]

BareChunk == [page_content |-> "t8", metadata |-> [chunk_id |-> "c8"]]

\* hash(doc.page_content): a 64-bit hash of the text, distinct for the
\* distinct texts of the corpus
Hash(text) ==
    CASE text = "t1" -> 7919
      [] text = "t2" -> 104729
      [] text = "t3" -> 1299709
      [] text = "t4" -> 2750159
      [] text = "t8" -> 15485863
      [] text = "t9" -> 32452843

\* ----------------------------------------------------------------- state
VARIABLES
    documents,        \* DataPreparation.documents: the parent documents
    chunks,           \* DataPreparation.chunks = RetrievalOptimizationModule.chunks
    parent_child_map, \* DataPreparation.parent_child_map
    shared,           \* whether a retriever's Document shares its chunk's metadata dict
    vs_docs,          \* the Documents held by the vector store's docstore
    bm_docs,          \* the Documents held by the BM25 retriever
    pc,               \* "serving": no call made yet; "returned": the call made
    call,             \* the call made and its arguments
    fused,            \* _rrf_rerank's return value inside the call
    ret,              \* the call's return value
    raised,           \* the exception the call raised, "" when it returned
    rounds,           \* how often the call asked the two retrievers
    threads,          \* the hybrid_search calls running in parallel threads
    files,            \* the *.md files under data_path: path -> content
    has_documents,    \* whether DataPreparation has its attribute documents
    next_uuid,        \* how many uuid4 values have been drawn
    vectorstore,      \* IndexConstructionModule.vectorstore: None or "FAISS"
    system            \* RecipeRAGSystem's module attributes

\* what a serving call may write
serving_vars == <<chunks, vs_docs, bm_docs, pc, call, fused, ret, raised, rounds>>

\* what ingestion and index construction write
ingest_vars == <<files, has_documents, next_uuid, vectorstore, system>>

vars == <<documents, chunks, parent_child_map, shared, vs_docs, bm_docs,
          pc, call, fused, ret, raised, rounds, threads,
          files, has_documents, next_uuid, vectorstore, system>>

\* the three object stores a reference <<store, i>> points into
Stores == [chunks |-> chunks, vs |-> vs_docs, bm |-> bm_docs]

\* ------------------------------------------------------------ dict helpers
\* a Python dict as the sequence of its <<key, value>> items in insertion order
DictHas(d, key) == \E i \in 1..Len(d) : d[i][1] = key

DictGet(d, key, default) ==
    IF DictHas(d, key)
    THEN d[CHOOSE i \in 1..Len(d) : d[i][1] = key][2]
    ELSE default

\* d[key] = value: a new key goes last, a key already there keeps its place
DictPut(d, key, value) ==
    IF DictHas(d, key)
    THEN [i \in 1..Len(d) |-> IF d[i][1] = key THEN <<key, value>> ELSE d[i]]
    ELSE Append(d, <<key, value>>)

\* metadata.get(key)
MetaGet(metadata, key) ==
    IF key \in DOMAIN metadata THEN metadata[key] ELSE None

\* metadata[key] = value on a metadata dict
MetaPut(metadata, key, value) ==
    [f \in DOMAIN metadata \cup {key} |-> IF f = key THEN value ELSE metadata[f]]

\* ------------------------------------------------------------- documents
\* the Document a reference points at, in the stores st
Deref(st, doc) == st[doc[1]][doc[2]]

\* doc.metadata["rrf_score"] = score.  When the retrievers' Documents share
\* the metadata dict of the chunk they were built from, the write shows in
\* the chunk and in both retrievers' Documents; when each holds a copy, only
\* in the Document written to.
SetScore(st, doc, score) ==
    LET i == doc[2]
        written(store) == shared \/ store = doc[1]
        upd(store) ==
            IF written(store)
            THEN [st[store] EXCEPT ![i].metadata = MetaPut(@, "rrf_score", score)]
            ELSE st[store]
    IN  [chunks |-> upd("chunks"), vs |-> upd("vs"), bm |-> upd("bm")]

\* ---------------------------------------------------------- _rrf_rerank
\* one of the two loops `for rank, doc in enumerate(docs)`, from index rank
\* on: acc.scores is doc_scores, acc.objects is doc_objects
RECURSIVE RrfScan(_, _, _, _, _)
RrfScan(st, docs, rank, k, acc) ==
    IF rank >= Len(docs) THEN acc
    ELSE LET doc    == docs[rank + 1]
             doc_id == Hash(Deref(st, doc).page_content)
             score  == Contribution(rank, k)
             old    == DictGet(acc.scores, doc_id, FZero)
         IN  RrfScan(st, docs, rank + 1, k,
                     [scores  |-> DictPut(acc.scores, doc_id, FAdd(old, score)),
                      objects |-> DictPut(acc.objects, doc_id, doc)])

\* the same without reverse=True: ascending, behind every item not larger
InsertAscending(done, item) ==
    LET before == {i \in 1..Len(done) : ~ FLess(item[2], done[i][2])}
        n      == IF before = {} THEN 0
                  ELSE CHOOSE i \in before : \A j \in before : j <= i
    IN  SubSeq(done, 1, n) \o <<item>> \o SubSeq(done, n + 1, Len(done))

\* where sorted(..., reverse=True) puts item into the sorted prefix done so
\* far: the sort is stable, so behind every item whose score is not smaller
InsertByScore(done, item) ==
    LET before == {i \in 1..Len(done) : ~ FLess(done[i][2], item[2])}
        n      == IF before = {} THEN 0
                  ELSE CHOOSE i \in before : \A j \in before : j <= i
    IN  SubSeq(done, 1, n) \o <<item>> \o SubSeq(done, n + 1, Len(done))

\* sorted(doc_scores.items(), key=lambda x: x[1], reverse=True)
RECURSIVE SortByScore(_, _)
SortByScore(items, done) ==
    IF items = <<>> THEN done
    ELSE SortByScore(Tail(items), InsertByScore(done, Head(items)))

\* the loop that builds final_docs and writes each score into its Document
RECURSIVE RrfFinal(_, _, _, _)
RrfFinal(st, ranked_docs, objects, final_docs) ==
    IF ranked_docs = <<>> THEN [docs |-> final_docs, stores |-> st]
    ELSE LET doc_id == Head(ranked_docs)[1]
             score  == Head(ranked_docs)[2]
             doc    == DictGet(objects, doc_id, None)
         IN  RrfFinal(SetScore(st, doc, score), Tail(ranked_docs), objects,
                      Append(final_docs, doc))

\* _rrf_rerank(vector_docs, bm25_docs, k): the list returned and the stores
\* as the call leaves them
RrfRerank(st, vector_docs, bm25_docs, k) ==
    LET empty   == [scores |-> <<>>, objects |-> <<>>]
        dense   == RrfScan(st, vector_docs, 0, k, empty)
        both    == RrfScan(st, bm25_docs, 0, k, dense)
        ranked_docs == SortByScore(both.scores, <<>>)
    IN  RrfFinal(st, ranked_docs, both.objects, <<>>)

\* combined_results[:top_k]
Take(s, n) == SubSeq(s, 1, Min(n, Len(s)))

\* -------------------------------------------- metadata_filtered_search
\* a filter value: a single value (kept in v[1]), or a list of admitted values;
\* list is isinstance(value, list)
Single(v) == [list |-> FALSE, v |-> <<v>>]

List(vs) == [list |-> TRUE, v |-> vs]

\* a chunk without the filtered field passes (the else branch forgotten)
FieldMatchesIfPresent(metadata, key, value) ==
    IF key \in DOMAIN metadata
    THEN IF value.list THEN metadata[key] \in Range(value.v)
         ELSE metadata[key] = value.v[1]
    ELSE TRUE

\* the body of the inner loop: whether match stays True for this key
FieldMatches(metadata, key, value) ==
    IF key \in DOMAIN metadata
    THEN IF value.list
         THEN IF metadata[key] \notin Range(value.v) THEN FALSE ELSE TRUE
         ELSE IF metadata[key] # value.v[1] THEN FALSE ELSE TRUE
    ELSE FALSE

\* the inner loop `for key, value in metadata_filters.items()` with its
\* breaks: the value of match when the loop ends
RECURSIVE MatchFilters(_, _)
MatchFilters(metadata, items) ==
    IF items = <<>> THEN TRUE
    ELSE IF FieldMatches(metadata, Head(items)[1], Head(items)[2])
         THEN MatchFilters(metadata, Tail(items))
         ELSE FALSE

\* filtered_docs.insert(0, doc) in place of append
KeepFirst(filtered_docs, doc) == <<doc>> \o filtered_docs

\* filtered_docs.append(doc)
Keep(filtered_docs, doc) == Append(filtered_docs, doc)

\* the outer loop `for doc in initial_docs`, from index i on
RECURSIVE FilterDocs(_, _, _, _, _, _)
FilterDocs(st, initial_docs, i, metadata_filters, top_k, filtered_docs) ==
    IF i > Len(initial_docs) THEN filtered_docs
    ELSE LET doc == initial_docs[i]
         IN  IF MatchFilters(Deref(st, doc).metadata, metadata_filters)
             THEN LET kept == Keep(filtered_docs, doc)
                  IN  IF Len(kept) >= top_k THEN kept
                      ELSE FilterDocs(st, initial_docs, i + 1, metadata_filters,
                                      top_k, kept)
             ELSE FilterDocs(st, initial_docs, i + 1, metadata_filters, top_k,
                             filtered_docs)

\* ------------------------------------------------- get_parent_document
\* a Python value used as a condition: None and "" are false
Truthy(v) == v # None /\ v # ""

\* the generator `doc for doc in self.documents if doc.metadata['parent_id']
\* == parent_id` run to its first hit: indexing a document that has no
\* parent_id raises KeyError
RECURSIVE ScanDocuments(_, _, _)
ScanDocuments(docs, i, parent_id) ==
    IF i > Len(docs) THEN [raised |-> "", found |-> <<>>]
    ELSE IF "parent_id" \notin DOMAIN docs[i].metadata
         THEN [raised |-> "KeyError", found |-> <<>>]
         ELSE IF docs[i].metadata["parent_id"] = parent_id
              THEN [raised |-> "", found |-> <<docs[i]>>]
              ELSE ScanDocuments(docs, i + 1, parent_id)

\* next(...) without its default: an exhausted generator raises StopIteration
FindParentNoDefault(docs, parent_id) ==
    LET scan == ScanDocuments(docs, 1, parent_id)
    IN  IF scan.raised = "" /\ scan.found = <<>>
        THEN [raised |-> "StopIteration", found |-> <<>>]
        ELSE scan

\* next((doc for doc in self.documents if ...), None): found is <<doc>> for
\* the first such document and <<>> for None
FindParent(docs, parent_id) == ScanDocuments(docs, 1, parent_id)

\* every child recorded on its own (a list where the dict is)
CountChildSeparately(relevance, parent_id) == Append(relevance, <<parent_id, 1>>)

\* parent_relevance[parent_id] = parent_relevance.get(parent_id, 0) + 1
CountChild(relevance, parent_id) ==
    DictPut(relevance, parent_id, DictGet(relevance, parent_id, 0) + 1)

\* the loop `for chunk in child_chunks`: acc.relevance is parent_relevance,
\* acc.docs_map is parent_docs_map, acc.raised the exception that ended it
RECURSIVE CollectParents(_, _, _)
CollectParents(docs, child_chunks, acc) ==
    IF child_chunks = <<>> THEN acc
    ELSE LET chunk     == Head(child_chunks)
             child_id  == MetaGet(chunk.metadata, "chunk_id")
             parent_id == MetaGet(chunk.metadata, "parent_id")
             counted   == CountChild(acc.relevance, parent_id)
         IN  IF ~ Truthy(parent_id)
             THEN CollectParents(docs, Tail(child_chunks), acc)
             ELSE IF DictHas(acc.docs_map, parent_id)
             THEN CollectParents(docs, Tail(child_chunks),
                                 [acc EXCEPT !.relevance = counted])
             ELSE LET parent_doc == FindParent(docs, parent_id)
                  IN  IF parent_doc.raised # ""
                      THEN [acc EXCEPT !.relevance = counted,
                                       !.raised = parent_doc.raised]
                      ELSE CollectParents(docs, Tail(child_chunks),
                               [acc EXCEPT
                                   !.relevance = counted,
                                   !.docs_map =
                                       IF parent_doc.found # <<>>
                                       THEN DictPut(@, parent_id, parent_doc.found[1])
                                       ELSE @])

\* where sorted(..., reverse=True) puts a parent id into the sorted prefix
InsertByRelevance(done, item) ==
    LET before == {i \in 1..Len(done) : done[i][2] >= item[2]}
        n      == IF before = {} THEN 0
                  ELSE CHOOSE i \in before : \A j \in before : j <= i
    IN  SubSeq(done, 1, n) \o <<item>> \o SubSeq(done, n + 1, Len(done))

\* sorted(parent_relevance.keys(), key=lambda x: parent_relevance[x], reverse=True)
RECURSIVE SortByRelevance(_, _)
SortByRelevance(items, done) ==
    IF items = <<>> THEN done
    ELSE SortByRelevance(Tail(items), InsertByRelevance(done, Head(items)))

\* the loop `for parent_id in sorted_parent_ids`
RECURSIVE BuildParentDocs(_, _, _)
BuildParentDocs(sorted_parent_ids, docs_map, parent_docs) ==
    IF sorted_parent_ids = <<>> THEN parent_docs
    ELSE LET parent_id == Head(sorted_parent_ids)[1]
         IN  BuildParentDocs(Tail(sorted_parent_ids), docs_map,
                 IF DictHas(docs_map, parent_id)
                 THEN Append(parent_docs, DictGet(docs_map, parent_id, None))
                 ELSE parent_docs)

\* get_parent_document(child_chunks) over the stored documents docs: the
\* exception raised ("" for none) and the list returned
ParentDocuments(docs, child_chunks) ==
    LET acc == CollectParents(docs, child_chunks,
                              [relevance |-> <<>>, docs_map |-> <<>>, raised |-> ""])
    IN  IF acc.raised # "" THEN [raised |-> acc.raised, value |-> <<>>]
        ELSE [raised |-> "",
              value  |-> BuildParentDocs(SortByRelevance(acc.relevance, <<>>),
                                         acc.docs_map, <<>>)]

\* ---------------------------------------------------------------- inputs
\* the sequences without repetition over S of length at most n
DistinctSeqs(S, n) ==
    UNION {{s \in [1..m -> S] : \A i, j \in 1..m : i # j => s[i] # s[j]} : m \in 0..n}

\* the sequences over S of length at most n
SeqsUpTo(S, n) == UNION {[1..m -> S] : m \in 0..n}

\* what a retriever can hand back: at most k of the Documents it holds, each once
Retrieved(store) ==
    {[i \in 1..Len(s) |-> <<store, s[i]>>] :
        s \in DistinctSeqs(1..Len(Stores[store]), Min(MaxLen, RetrieverK))}

\* the metadata_filters a caller passes
FilterSets ==
    {cat \o sec :
        cat \in {<<>>, << <<"category", Single("soup")>> >>,
                 << <<"category", List(<<"dessert", "staple">>)>> >>},
        sec \in {<<>>, << <<"h2", Single("steps")>> >>,
                 << <<"h2", List(<<"ingredients", "steps">>)>> >>}}

NoCall == [op |-> "none", vector_docs |-> <<>>, bm25_docs |-> <<>>, top_k |-> 0,
           metadata_filters |-> <<>>, child_chunks |-> <<>>, label |-> "",
           new_chunks |-> <<>>]

\* the threads that call hybrid_search in parallel
Tids == {1, 2}

\* a thread that has not called yet
IdleThread == [pc |-> "idle", top_k |-> 0, vector_docs |-> <<>>, bm25_docs |-> <<>>,
               ranked_docs |-> <<>>, doc_objects |-> <<>>, final_docs |-> <<>>,
               ret |-> <<>>, scores |-> <<>>]

\* a RecipeRAGSystem whose modules are all None
NoSystem == [data_module |-> None, index_module |-> None,
             retrieval_module |-> None, generation_module |-> None]

\* --------------------------------------------------------------- actions
\* the state once build_knowledge_base has loaded, chunked and indexed the corpus
Init ==
    /\ rounds = 0
    /\ threads = [t \in Tids |-> IdleThread]
    /\ files = CorpusFiles
    /\ has_documents = TRUE
    /\ next_uuid = 0
    /\ vectorstore = "FAISS"
    /\ system = NoSystem
    /\ documents = CorpusDocuments
    /\ chunks = CorpusChunks
    /\ parent_child_map = CorpusMap
    /\ shared \in BOOLEAN
    /\ vs_docs = CorpusChunks
    /\ bm_docs = CorpusChunks
    /\ pc = "serving"
    /\ call = NoCall
    /\ fused = <<>>
    /\ ret = <<>>
    /\ raised = ""

\* hybrid_search(query, top_k)
HybridSearch ==
    /\ pc = "serving"
    /\ \E vector_docs \in Retrieved("vs"), bm25_docs \in Retrieved("bm"),
          top_k \in 1..MaxTopK :
          LET combined_results == RrfRerank(Stores, vector_docs, bm25_docs, top_k)
          IN  /\ chunks' = combined_results.stores.chunks
              /\ vs_docs' = combined_results.stores.vs
              /\ bm_docs' = combined_results.stores.bm
              /\ fused' = combined_results.docs
              /\ ret' = Take(combined_results.docs, top_k)
              /\ call' = [NoCall EXCEPT !.op = "hybrid_search",
                                        !.vector_docs = vector_docs,
                                        !.bm25_docs = bm25_docs,
                                        !.top_k = top_k]
    /\ pc' = "returned"
    /\ raised' = ""
    /\ rounds' = 1
    /\ UNCHANGED <<documents, parent_child_map, shared, threads, ingest_vars>>

\* hybrid_search asked for top_k results only
FetchCountWithoutOverFetch(top_k) == top_k

\* top_k=top_k*3: how many fused results metadata_filtered_search asks
\* hybrid_search for
FetchCount(top_k) == top_k * OverFetch

\* metadata_filtered_search(query, metadata_filters, top_k)
MetadataFilteredSearch ==
    /\ pc = "serving"
    /\ \E vector_docs \in Retrieved("vs"), bm25_docs \in Retrieved("bm"),
          top_k \in 1..MaxTopK :
          LET combined_results ==
                  RrfRerank(Stores, vector_docs, bm25_docs, FetchCount(top_k))
              initial_docs == Take(combined_results.docs, FetchCount(top_k))
          IN  /\ chunks' = combined_results.stores.chunks
              /\ vs_docs' = combined_results.stores.vs
              /\ bm_docs' = combined_results.stores.bm
              /\ fused' = combined_results.docs
              /\ \E metadata_filters \in FilterSets :
                    /\ ret' = FilterDocs(combined_results.stores, initial_docs, 1,
                                         metadata_filters, top_k, <<>>)
                    /\ call' = [NoCall EXCEPT !.op = "metadata_filtered_search",
                                              !.vector_docs = vector_docs,
                                              !.bm25_docs = bm25_docs,
                                              !.metadata_filters = metadata_filters,
                                              !.top_k = top_k]
    /\ pc' = "returned"
    /\ raised' = ""
    /\ rounds' = 1
    /\ UNCHANGED <<documents, parent_child_map, shared, threads, ingest_vars>>

\* the Documents a caller hands to get_parent_document
ChildPool == Range(chunks) \cup {StaleChunk, BareChunk}

\* get_parent_document(child_chunks)
GetParentDocument ==
    /\ pc = "serving"
    /\ \E child_chunks \in SeqsUpTo(ChildPool, MaxChildren) :
          /\ ret' = ParentDocuments(documents, child_chunks).value
          /\ raised' = ParentDocuments(documents, child_chunks).raised
          /\ call' = [NoCall EXCEPT !.op = "get_parent_document",
                                    !.child_chunks = child_chunks]
    /\ pc' = "returned"
    /\ UNCHANGED <<documents, chunks, parent_child_map, shared, vs_docs, bm_docs,
                   fused, rounds, threads, ingest_vars>>

Next == HybridSearch \/ MetadataFilteredSearch \/ GetParentDocument

Spec == Init /\ [][Next]_vars

\* ------------------------------------- filtered search over distinct texts
\* a corpus like CorpusChunks in which no two chunks have the same text, so
\* that fusion can return more than OverFetch results
WideChunks == [CorpusChunks EXCEPT ![2].page_content = "t4"]

\* the state once that corpus is loaded, chunked and indexed
WideInit ==
    /\ documents = CorpusDocuments
    /\ chunks = WideChunks
    /\ parent_child_map = CorpusMap
    /\ shared \in BOOLEAN
    /\ vs_docs = WideChunks
    /\ bm_docs = WideChunks
    /\ pc = "serving"
    /\ call = NoCall
    /\ fused = <<>>
    /\ ret = <<>>
    /\ raised = ""
    /\ rounds = 0
    /\ threads = [t \in Tids |-> IdleThread]
    /\ files = CorpusFiles
    /\ has_documents = TRUE
    /\ next_uuid = 0
    /\ vectorstore = "FAISS"
    /\ system = NoSystem

WideNext == MetadataFilteredSearch

WideSpec == WideInit /\ [][WideNext]_vars

\* ------------------------------------------------- parallel hybrid searches
\* what a retriever hands a thread: as Retrieved, up to MaxConcLen Documents
ConcRetrieved(store) ==
    {[i \in 1..Len(s) |-> <<store, s[i]>>] :
        s \in DistinctSeqs(1..Len(Stores[store]), Min(MaxConcLen, RetrieverK))}

\* thread t calls hybrid_search and runs _rrf_rerank up to the sort: it reads
\* nothing but page_content, which no one writes
ThreadRank(t) ==
    /\ threads[t].pc = "idle"
    /\ \E vector_docs \in ConcRetrieved("vs"), bm25_docs \in ConcRetrieved("bm"),
          top_k \in 1..MaxTopK :
          LET empty == [scores |-> <<>>, objects |-> <<>>]
              dense == RrfScan(Stores, vector_docs, 0, top_k, empty)
              both  == RrfScan(Stores, bm25_docs, 0, top_k, dense)
          IN  threads' = [threads EXCEPT ![t] =
                  [IdleThread EXCEPT !.pc = "writing",
                                     !.top_k = top_k,
                                     !.vector_docs = vector_docs,
                                     !.bm25_docs = bm25_docs,
                                     !.ranked_docs = SortByScore(both.scores, <<>>),
                                     !.doc_objects = both.objects]]
    /\ UNCHANGED <<documents, parent_child_map, shared, serving_vars, ingest_vars>>

\* one round of the loop `for doc_id, score in ranked_docs` in thread t
ThreadWrite(t) ==
    /\ threads[t].pc = "writing"
    /\ threads[t].ranked_docs # <<>>
    /\ LET round == RrfFinal(Stores, <<Head(threads[t].ranked_docs)>>,
                             threads[t].doc_objects, threads[t].final_docs)
       IN  /\ chunks' = round.stores.chunks
           /\ vs_docs' = round.stores.vs
           /\ bm_docs' = round.stores.bm
           /\ threads' = [threads EXCEPT ![t].ranked_docs = Tail(@),
                                          ![t].final_docs = round.docs]
    /\ UNCHANGED <<documents, parent_child_map, shared, pc, call, fused, ret, raised,
                   rounds, ingest_vars>>

\* thread t leaves the loop and hybrid_search returns final_docs[:top_k]; scores
\* are the rrf_score values its caller finds on the Documents returned
ThreadReturn(t) ==
    /\ threads[t].pc = "writing"
    /\ threads[t].ranked_docs = <<>>
    /\ LET returned == Take(threads[t].final_docs, threads[t].top_k)
       IN  threads' = [threads EXCEPT
               ![t].pc = "done",
               ![t].ret = returned,
               ![t].scores = [i \in 1..Len(returned) |->
                                 Deref(Stores, returned[i]).metadata["rrf_score"]]]
    /\ UNCHANGED <<documents, parent_child_map, shared, serving_vars, ingest_vars>>

ConcNext == \E t \in Tids : ThreadRank(t) \/ ThreadWrite(t) \/ ThreadReturn(t)

ConcSpec == Init /\ [][ConcNext]_vars

\* ============================================================ ingestion
\* the *.md files rglob may find under data_path, in the order it yields them
PathOrder == <<"soup/a.md", "dessert/b.md">>

\* what a file may hold: "" is an empty file, "recipe A" a recipe with
\* headers, "recipe X" a text on which the header splitter raises
IngestContents == {"", "recipe A", "recipe X"}

\* every state of the data directory
FileSystems == UNION {[S -> IngestContents] : S \in SUBSET Range(PathOrder)}

\* hashlib.md5(relative_path.encode('utf-8')).hexdigest(): P1, P2 stand
\* for the two digests
Md5(relative_path) ==
    CASE relative_path = "soup/a.md" -> "P1"
      [] relative_path = "dessert/b.md" -> "P2"

\* Path(source).parts
PathParts(source) ==
    CASE source = "soup/a.md" -> {"soup", "a.md"}
      [] source = "dessert/b.md" -> {"dessert", "b.md"}

\* CATEGORY_MAPPING, in its order
CATEGORY_MAPPING ==
    << <<"meat_dish", "meat">>, <<"vegetable_dish", "vegetable">>,
       <<"soup", "soup">>, <<"dessert", "dessert">>, <<"breakfast", "breakfast">>,
       <<"staple", "staple">>, <<"aquatic", "aquatic">>,
       <<"condiment", "condiment">>, <<"drink", "drink">> >>

CATEGORY_LABELS == {CATEGORY_MAPPING[i][2] : i \in 1..Len(CATEGORY_MAPPING)}

DIFFICULTY_LABELS == <<"very easy", "easy", "medium", "hard", "very hard">>

\* _enhance_metadata: the category of the first mapping key among the path's
\* parts, "other" when there is none
Category(source) ==
    LET hits == {i \in 1..Len(CATEGORY_MAPPING) :
                    CATEGORY_MAPPING[i][1] \in PathParts(source)}
    IN  IF hits = {} THEN "other"
        ELSE CATEGORY_MAPPING[CHOOSE i \in hits : \A j \in hits : i <= j][2]

\* the longest run of stars in a content
Stars(content) ==
    CASE content = "recipe A" -> 2
      [] content = "recipe B" -> 4
      [] content = "recipe X" -> 5
      [] content = "" -> 0

\* _enhance_metadata: the difficulty read off the stars
Difficulty(content) ==
    IF Stars(content) >= 5 THEN "very hard"
    ELSE IF Stars(content) >= 4 THEN "hard"
    ELSE IF Stars(content) >= 3 THEN "medium"
    ELSE IF Stars(content) >= 2 THEN "easy"
    ELSE IF Stars(content) >= 1 THEN "very easy"
    ELSE "unknown"

\* a dict without keys
EmptyDict == [f \in {} |-> None]

\* a.update(b)
MetaUpdate(a, b) ==
    [f \in DOMAIN a \cup DOMAIN b |-> IF f \in DOMAIN b THEN b[f] ELSE a[f]]

\* markdown_splitter.split_text(content): the chunks with their header
\* metadata, or raised
SplitText(content) ==
    CASE content = "" -> [raised |-> FALSE, md_chunks |-> <<>>]
      [] content = "recipe A" ->
            [raised |-> FALSE,
             md_chunks |-> << [page_content |-> "t1",
                               metadata |-> [h2 |-> "ingredients"]],
                              [page_content |-> "t2", metadata |-> EmptyDict] >>]
      [] content = "recipe B" ->
            [raised |-> FALSE,
             md_chunks |-> << [page_content |-> "t3",
                               metadata |-> [h2 |-> "steps"]] >>]
      [] content = "recipe X" -> [raised |-> TRUE, md_chunks |-> <<>>]

\* str(uuid.uuid4()): the n-th value drawn
Uuid(n) == "u" \o ToString(n)

\* the Document load_data builds for a file, _enhance_metadata applied
ParentDoc(path, content) ==
    [page_content |-> content,
     metadata |-> [parent_id |-> Md5(path), source |-> path,
                   category |-> Category(path), difficulty |-> Difficulty(content)]]

\* the loop over rglob('*.md') from the i-th path on
RECURSIVE ReadFiles(_, _, _)
ReadFiles(fs, i, docs) ==
    IF i > Len(PathOrder) THEN docs
    ELSE ReadFiles(fs, i + 1,
                   IF PathOrder[i] \in DOMAIN fs
                   THEN Append(docs, ParentDoc(PathOrder[i], fs[PathOrder[i]]))
                   ELSE docs)

\* self.documents.extend(documents) in place of the assignment
ExtendDocuments(old, new) == old \o new

\* self.documents = documents
StoreDocuments(old, new) == new

\* the loop `for i, chunk in enumerate(md_chunks)` from index i on: acc.chunks
\* the chunks filled in, acc.map the parent_child_map, acc.uuid the draws
RECURSIVE FillChunks(_, _, _, _)
FillChunks(md_chunks, i, doc, acc) ==
    IF i >= Len(md_chunks) THEN acc
    ELSE LET chunk     == md_chunks[i + 1]
             chunk_id  == Uuid(acc.uuid + 1)
             parent_id == doc.metadata["parent_id"]
             inherited == MetaUpdate(chunk.metadata, doc.metadata)
             metadata  == MetaUpdate(inherited,
                                     [chunk_id |-> chunk_id, parent_id |-> parent_id,
                                      chunk_index |-> i])
         IN  FillChunks(md_chunks, i + 1, doc,
                        [chunks |-> Append(acc.chunks,
                                           [page_content |-> chunk.page_content,
                                            metadata |-> metadata]),
                         map    |-> MetaPut(acc.map, chunk_id, parent_id),
                         uuid   |-> acc.uuid + 1])

\* _markdown_header_split from the j-th document on.  acc.alias says, for each
\* chunk, which document of self.documents it is (0: an object of its own)
RECURSIVE MarkdownHeaderSplit(_, _, _)
MarkdownHeaderSplit(docs, j, acc) ==
    IF j > Len(docs) THEN acc
    ELSE LET doc   == docs[j]
             split == SplitText(doc.page_content)
             made  == FillChunks(split.md_chunks, 0, doc,
                                 [chunks |-> <<>>, map |-> acc.map, uuid |-> acc.uuid])
         IN  IF split.raised
             THEN MarkdownHeaderSplit(docs, j + 1,
                      [acc EXCEPT !.chunks = Append(@, doc),
                                  !.alias = Append(@, j)])
             ELSE MarkdownHeaderSplit(docs, j + 1,
                      [chunks |-> acc.chunks \o made.chunks,
                       alias  |-> acc.alias \o [n \in 1..Len(made.chunks) |-> 0],
                       map    |-> made.map,
                       uuid   |-> made.uuid])

\* the loop `for i, chunk in enumerate(chunks)` of chunk_documents, from
\* index i on
RECURSIVE StampChunks(_, _, _)
StampChunks(chunk_list, i, uuid) ==
    IF i >= Len(chunk_list) THEN [chunks |-> chunk_list, uuid |-> uuid]
    ELSE LET chunk   == chunk_list[i + 1]
             fresh   == "chunk_id" \notin DOMAIN chunk.metadata
             with_id == IF fresh
                        THEN MetaPut(chunk.metadata, "chunk_id", Uuid(uuid + 1))
                        ELSE chunk.metadata
             stamped == MetaPut(with_id, "batch_index", i)
         IN  StampChunks([chunk_list EXCEPT ![i + 1].metadata = stamped], i + 1,
                         IF fresh THEN uuid + 1 ELSE uuid)

\* chunk_documents past its guard: the chunks, the map, the draws, and the
\* documents, a document kept whole as a chunk being written to as that chunk
ChunkResult(docs, map, uuid) ==
    LET split   == MarkdownHeaderSplit(docs, 1,
                       [chunks |-> <<>>, alias |-> <<>>, map |-> map, uuid |-> uuid])
        stamped == StampChunks(split.chunks, 0, split.uuid)
        aliased(j) == {n \in 1..Len(split.alias) : split.alias[n] = j}
    IN  [chunks    |-> stamped.chunks,
         map       |-> split.map,
         uuid      |-> stamped.uuid,
         documents |-> [j \in 1..Len(docs) |->
                           IF aliased(j) = {} THEN docs[j]
                           ELSE stamped.chunks[CHOOSE n \in aliased(j) : TRUE]]]

\* the state after DataPreparation(data_path), IndexConstructionModule() and
\* RecipeRAGSystem() have been constructed
IngestInit ==
    /\ documents = <<>>
    /\ has_documents = FALSE
    /\ chunks = <<>>
    /\ parent_child_map = EmptyDict
    /\ files \in FileSystems
    /\ next_uuid = 0
    /\ vectorstore = None
    /\ vs_docs = <<>>
    /\ bm_docs = <<>>
    /\ shared = FALSE
    /\ system = NoSystem
    /\ pc = "serving"
    /\ call = NoCall
    /\ fused = <<>>
    /\ ret = <<>>
    /\ raised = ""
    /\ rounds = 0
    /\ threads = [t \in Tids |-> IdleThread]

\* what no ingestion operation touches
aside == <<shared, bm_docs, fused, rounds, threads>>

\* a file under data_path is written or deleted
EditFiles ==
    /\ \E path \in Range(PathOrder) :
          \/ \E content \in IngestContents :
                files' = [q \in DOMAIN files \cup {path} |->
                             IF q = path THEN content ELSE files[q]]
          \/ files' = [q \in DOMAIN files \ {path} |-> files[q]]
    /\ files' # files
    /\ call' = [NoCall EXCEPT !.op = "edit_files"]
    /\ ret' = <<>>
    /\ raised' = ""
    /\ UNCHANGED <<documents, has_documents, chunks, parent_child_map, next_uuid,
                   vectorstore, vs_docs, system, pc, aside>>

\* load_data()
LoadData ==
    /\ documents' = StoreDocuments(documents, ReadFiles(files, 1, <<>>))
    /\ has_documents' = TRUE
    /\ ret' = ReadFiles(files, 1, <<>>)
    /\ raised' = ""
    /\ call' = [NoCall EXCEPT !.op = "load_data"]
    /\ pc' = "returned"
    /\ UNCHANGED <<chunks, parent_child_map, files, next_uuid, vectorstore, vs_docs,
                   system, aside>>

\* chunk_documents()
ChunkDocuments ==
    /\ call' = [NoCall EXCEPT !.op = "chunk_documents"]
    /\ pc' = "returned"
    /\ IF ~ has_documents
       THEN /\ raised' = "AttributeError"
            /\ ret' = <<>>
            /\ UNCHANGED <<documents, chunks, parent_child_map, next_uuid>>
       ELSE IF documents = <<>>
       THEN /\ raised' = "ValueError"
            /\ ret' = <<>>
            /\ UNCHANGED <<documents, chunks, parent_child_map, next_uuid>>
       ELSE LET result == ChunkResult(documents, parent_child_map, next_uuid)
            IN  /\ result.uuid <= MaxUuid
                /\ raised' = ""
                /\ ret' = result.chunks
                /\ chunks' = result.chunks
                /\ documents' = result.documents
                /\ parent_child_map' = result.map
                /\ next_uuid' = result.uuid
    /\ UNCHANGED <<has_documents, files, vectorstore, vs_docs, system, aside>>

\* the labels callers ask for: some of each enumeration, "unknown" (what
\* _enhance_metadata writes when it finds no star) and one of neither
AskedLabels == {"soup", "staple", "easy", "unknown", "spicy"}

\* [doc for doc in self.documents if doc.metadata.get(field) == label]
DocumentsWith(docs, field, label) ==
    SelectSeq(docs, LAMBDA doc : MetaGet(doc.metadata, field) = label)

\* filter_documents_by_category(category)
FilterDocumentsByCategory ==
    /\ \E category \in AskedLabels :
          /\ call' = [NoCall EXCEPT !.op = "filter_documents_by_category",
                                    !.label = category]
          /\ IF category \notin CATEGORY_LABELS
             THEN raised' = "ValueError" /\ ret' = <<>>
             ELSE IF ~ has_documents
             THEN raised' = "AttributeError" /\ ret' = <<>>
             ELSE /\ raised' = ""
                  /\ ret' = DocumentsWith(documents, "category", category)
    /\ pc' = "returned"
    /\ UNCHANGED <<documents, has_documents, chunks, parent_child_map, files,
                   next_uuid, vectorstore, vs_docs, system, aside>>

\* filter_documents_by_difficulty(difficulty)
FilterDocumentsByDifficulty ==
    /\ \E difficulty \in AskedLabels :
          /\ call' = [NoCall EXCEPT !.op = "filter_documents_by_difficulty",
                                    !.label = difficulty]
          /\ IF ~ has_documents
             THEN raised' = "AttributeError" /\ ret' = <<>>
             ELSE /\ raised' = ""
                  /\ ret' = DocumentsWith(documents, "difficulty", difficulty)
    /\ pc' = "returned"
    /\ UNCHANGED <<documents, has_documents, chunks, parent_child_map, files,
                   next_uuid, vectorstore, vs_docs, system, aside>>

\* the chunk lists a caller hands to the index: none, or the current chunks
ChunkLists == {<<>>, chunks}

\* build_vector_index(chunks)
BuildVectorIndex ==
    /\ \E chunk_list \in ChunkLists :
          /\ call' = [NoCall EXCEPT !.op = "build_vector_index",
                                    !.new_chunks = chunk_list]
          /\ IF chunk_list = <<>>
             THEN /\ raised' = "ValueError"
                  /\ UNCHANGED <<vectorstore, vs_docs>>
             ELSE /\ Len(chunk_list) <= MaxIndexed
                  /\ raised' = ""
                  /\ vectorstore' = "FAISS"
                  /\ vs_docs' = chunk_list
    /\ ret' = <<>>
    /\ pc' = "returned"
    /\ UNCHANGED <<documents, has_documents, chunks, parent_child_map, files,
                   next_uuid, system, aside>>

\* add_documents(new_chunks)
AddDocuments ==
    /\ \E new_chunks \in ChunkLists :
          /\ call' = [NoCall EXCEPT !.op = "add_documents",
                                    !.new_chunks = new_chunks]
          /\ IF vectorstore = None
             THEN raised' = "ValueError" /\ UNCHANGED vs_docs
             ELSE IF new_chunks = <<>>
             THEN raised' = "" /\ UNCHANGED vs_docs
             ELSE /\ Len(vs_docs) + Len(new_chunks) <= MaxIndexed
                  /\ raised' = ""
                  /\ vs_docs' = vs_docs \o new_chunks
    /\ ret' = <<>>
    /\ pc' = "returned"
    /\ UNCHANGED <<documents, has_documents, chunks, parent_child_map, files,
                   next_uuid, vectorstore, system, aside>>

\* save_vector_index()
SaveVectorIndex ==
    /\ call' = [NoCall EXCEPT !.op = "save_vector_index"]
    /\ raised' = IF vectorstore = None THEN "ValueError" ELSE ""
    /\ ret' = <<>>
    /\ pc' = "returned"
    /\ UNCHANGED <<documents, has_documents, chunks, parent_child_map, files,
                   next_uuid, vectorstore, vs_docs, system, aside>>

\* similarity_search(query, k)
SimilaritySearch ==
    /\ \E k \in 1..MaxTopK :
          /\ call' = [NoCall EXCEPT !.op = "similarity_search", !.top_k = k]
          /\ IF vectorstore = None
             THEN raised' = "ValueError" /\ ret' = <<>>
             ELSE /\ raised' = ""
                  /\ \E found \in Retrieved("vs") :
                        Len(found) = Min(k, Len(vs_docs)) /\ ret' = found
    /\ pc' = "returned"
    /\ UNCHANGED <<documents, has_documents, chunks, parent_child_map, files,
                   next_uuid, vectorstore, vs_docs, system, aside>>

\* RecipeRAGSystem.initialize_system(): the data and index modules are set,
\* then RetrievalOptimizationModule(model_name=..., temperature=...,
\* max_tokens=...) raises TypeError, its parameters being vectorstore and chunks
InitializeSystem ==
    /\ call' = [NoCall EXCEPT !.op = "initialize_system"]
    /\ system' = [system EXCEPT !.data_module = "DataPreparation",
                                !.index_module = "IndexConstructionModule"]
    /\ raised' = "TypeError"
    /\ ret' = <<>>
    /\ pc' = "returned"
    /\ UNCHANGED <<documents, has_documents, chunks, parent_child_map, files,
                   next_uuid, vectorstore, vs_docs, aside>>

\* RecipeRAGSystem.build_knowledge_base(): self.data_module.load_documents()
\* names an attribute that neither None nor DataPreparation has
BuildKnowledgeBase ==
    /\ call' = [NoCall EXCEPT !.op = "build_knowledge_base"]
    /\ raised' = "AttributeError"
    /\ ret' = <<>>
    /\ pc' = "returned"
    /\ UNCHANGED <<documents, has_documents, chunks, parent_child_map, files,
                   next_uuid, vectorstore, vs_docs, system, aside>>

\* RecipeRAGSystem.answer_query(query), up to its guard
AnswerQuery ==
    /\ call' = [NoCall EXCEPT !.op = "answer_query"]
    /\ raised' = IF system.retrieval_module = None \/ system.generation_module = None
                 THEN "ValueError" ELSE ""
    /\ ret' = <<>>
    /\ pc' = "returned"
    /\ UNCHANGED <<documents, has_documents, chunks, parent_child_map, files,
                   next_uuid, vectorstore, vs_docs, system, aside>>

\* ingestion: the files change, and are loaded, chunked and listed
IngestNext ==
    \/ EditFiles
    \/ LoadData
    \/ ChunkDocuments
    \/ FilterDocumentsByCategory
    \/ FilterDocumentsByDifficulty

IngestSpec == IngestInit /\ [][IngestNext]_vars

\* the store's lifecycle: loading, chunking, indexing and the system's calls
LifecycleNext ==
    \/ LoadData
    \/ ChunkDocuments
    \/ BuildVectorIndex
    \/ AddDocuments
    \/ SaveVectorIndex
    \/ SimilaritySearch
    \/ InitializeSystem
    \/ BuildKnowledgeBase
    \/ AnswerQuery

LifecycleSpec == IngestInit /\ [][LifecycleNext]_vars

\* ================================================================ claims
Returned(op) == pc = "returned" /\ call.op = op

\* a call that ran _rrf_rerank
Fusing == Returned("hybrid_search") \/ Returned("metadata_filtered_search")

\* the k the call passed to _rrf_rerank
RrfK == IF call.op = "hybrid_search" THEN call.top_k ELSE call.top_k * OverFetch

TextOf(doc) == Deref(Stores, doc).page_content

TextsOf(docs) == [i \in 1..Len(docs) |-> TextOf(docs[i])]

ScoreOf(doc) == Deref(Stores, doc).metadata["rrf_score"]

\* the sum of 1 / (k + r + 1) over the ranks r from rank on at which text
\* stands in the list of texts, added to acc
RECURSIVE SumOverRanks(_, _, _, _, _)
SumOverRanks(texts, text, rank, k, acc) ==
    IF rank >= Len(texts) THEN acc
    ELSE SumOverRanks(texts, text, rank + 1, k,
                      IF texts[rank + 1] = text
                      THEN FAdd(acc, FRecip(k + rank + 1)) ELSE acc)

\* the score the RRF formula gives a text: its contributions in the dense
\* list, then those in the sparse list
RrfFormula(text, dense, sparse, k) ==
    SumOverRanks(TextsOf(sparse), text, 0, k,
                 SumOverRanks(TextsOf(dense), text, 0, k, FZero))

OccursOnlyFirst(text, docs) ==
    /\ Len(docs) >= 1
    /\ \A i \in 1..Len(docs) : (TextOf(docs[i]) = text) <=> (i = 1)

InputTexts == Range(TextsOf(call.vector_docs)) \cup Range(TextsOf(call.bm25_docs))

\* C2: the list _rrf_rerank returns holds every text of the two inputs exactly
\* once, chunks of equal text being one result, and its scores never increase
\* from one entry to the next
C2_FusedIsDuplicateFreeDescending ==
    Fusing =>
        /\ \A i, j \in 1..Len(fused) : i # j => TextOf(fused[i]) # TextOf(fused[j])
        /\ Range(TextsOf(fused)) = InputTexts
        /\ \A i \in 1..Len(fused) - 1 : ~ FLess(ScoreOf(fused[i]), ScoreOf(fused[i + 1]))

\* a fusion in which two chunks of one text (c1 and c2) and a chunk found by
\* both retrievers collapse, leaving three results of different scores
C2_Witness ==
    /\ Returned("hybrid_search")
    /\ Len(call.vector_docs) + Len(call.bm25_docs) >= 5
    /\ Len(fused) = 3
    /\ {d[2] : d \in Range(call.vector_docs)} = {1, 2, 3}
    /\ FLess(ScoreOf(fused[2]), ScoreOf(fused[1]))
    /\ FLess(ScoreOf(fused[3]), ScoreOf(fused[2]))

InBoth(text) ==
    text \in Range(TextsOf(call.vector_docs)) /\ text \in Range(TextsOf(call.bm25_docs))

\* the place of a text's first appearance, scanning dense and then sparse
FirstAppearance(text) ==
    LET scan == TextsOf(call.vector_docs \o call.bm25_docs)
    IN  CHOOSE i \in 1..Len(scan) :
            scan[i] = text /\ \A j \in 1..(i - 1) : scan[j] # text

\* C3: of two returned chunks with equal fused scores, one found by both
\* retrievers stands before one found by a single retriever; when both or
\* neither were found by both, they stand in the order of first appearance
C3_TiesPreferBothThenFirstAppearance ==
    Fusing =>
        \A i, j \in 1..Len(fused) :
            (i < j /\ ScoreOf(fused[i]) = ScoreOf(fused[j])) =>
                LET ti == TextOf(fused[i])
                    tj == TextOf(fused[j])
                IN  /\ InBoth(tj) => InBoth(ti)
                    /\ (InBoth(ti) <=> InBoth(tj))
                           => FirstAppearance(ti) < FirstAppearance(tj)

\* the texts of docs in the order of their first occurrence
RECURSIVE FirstOccurrences(_, _)
FirstOccurrences(texts, seen) ==
    IF texts = <<>> THEN seen
    ELSE FirstOccurrences(Tail(texts),
                          IF Head(texts) \in Range(seen) THEN seen
                          ELSE Append(seen, Head(texts)))

\* C4 as claimed: with an empty sparse list the result is the dense list's
\* chunks in the dense list's own order (and empty when both are empty)
C4_SoleListKeepsItsOrder ==
    (Fusing /\ call.bm25_docs = <<>>) =>
        TextsOf(fused) = FirstOccurrences(TextsOf(call.vector_docs), <<>>)

DistinctTexts(docs) ==
    \A i, j \in 1..Len(docs) : i # j => TextOf(docs[i]) # TextOf(docs[j])

\* C4 as amended: with an empty sparse list and a dense list of pairwise
\* different texts, the result is exactly the dense list (empty when both
\* lists are empty)
C4_SoleListOfDistinctTextsKeepsItsOrder ==
    (Fusing /\ call.bm25_docs = <<>> /\ DistinctTexts(call.vector_docs)) =>
        fused = call.vector_docs

C4_Witness ==
    /\ Returned("hybrid_search")
    /\ call.bm25_docs = <<>>
    /\ Len(call.vector_docs) = 3
    /\ DistinctTexts(call.vector_docs)
    /\ fused = call.vector_docs


\* the candidates metadata_filtered_search filters: what its hybrid search
\* returned
Candidates == Take(fused, call.top_k * OverFetch)

MetadataOf(doc) == Deref(Stores, doc).metadata

\* the chunk has the field and its value is the filter's value, or one of
\* the filter's values when the filter gives a list
Satisfies(metadata, item) ==
    /\ item[1] \in DOMAIN metadata
    /\ \E j \in 1..Len(item[2].v) : metadata[item[1]] = item[2].v[j]

MatchesAll(doc) ==
    \A n \in 1..Len(call.metadata_filters) :
        Satisfies(MetadataOf(doc), call.metadata_filters[n])

LacksFilteredField(doc) ==
    \E n \in 1..Len(call.metadata_filters) :
        call.metadata_filters[n][1] \notin DOMAIN MetadataOf(doc)

\* the matching candidates that stand before position i
MatchingBefore(i) == {j \in 1..(i - 1) : MatchesAll(Candidates[j])}

\* C5 as stated: a candidate is kept if and only if it matches every filter
C5_KeptIffMatchesEveryFilter ==
    Returned("metadata_filtered_search") =>
        \A i \in 1..Len(Candidates) :
            (Candidates[i] \in Range(ret)) <=> MatchesAll(Candidates[i])

\* C5: a candidate is kept if and only if it matches every filter (equal to a
\* single value, member of a list value) and fewer than top_k matching
\* candidates stand before it; a candidate lacking a filtered field is never
\* kept
C5_KeptIffMatchesWithinTopK ==
    Returned("metadata_filtered_search") =>
        \A i \in 1..Len(Candidates) :
            /\ (Candidates[i] \in Range(ret)) <=>
                   (/\ MatchesAll(Candidates[i])
                    /\ Cardinality(MatchingBefore(i)) < call.top_k)
            /\ LacksFilteredField(Candidates[i]) => Candidates[i] \notin Range(ret)

\* a filtered search over two fields, one a list, that keeps a candidate,
\* drops one for its value and drops one that lacks the field
C5_Witness ==
    /\ Returned("metadata_filtered_search")
    /\ Len(call.metadata_filters) = 2
    /\ \E n \in 1..2 : call.metadata_filters[n][2].list
    /\ Len(ret) >= 1
    /\ \E i \in 1..Len(Candidates) : LacksFilteredField(Candidates[i])
    /\ \E i \in 1..Len(Candidates) :
          /\ ~ LacksFilteredField(Candidates[i])
          /\ ~ MatchesAll(Candidates[i])

PositionIn(docs, doc) == CHOOSE i \in 1..Len(docs) : docs[i] = doc

\* C6: what metadata_filtered_search returns is a subsequence of the list its
\* hybrid search produced: each result is one of those candidates, once, and
\* the results stand in the candidates' order
C6_ResultIsSubsequenceOfFused ==
    Returned("metadata_filtered_search") =>
        /\ \A i \in 1..Len(ret) : ret[i] \in Range(Candidates)
        /\ \A i, j \in 1..Len(ret) :
              i < j => PositionIn(Candidates, ret[i]) < PositionIn(Candidates, ret[j])

\* a filtered search that keeps the first and the third candidate and drops
\* the one between them
C6_Witness ==
    /\ Returned("metadata_filtered_search")
    /\ Len(Candidates) = 3
    /\ call.metadata_filters # <<>>
    /\ ret = <<Candidates[1], Candidates[3]>>

ParentIdOf(doc) == MetaGet(doc.metadata, "parent_id")

StoredParentIds == {documents[i].metadata["parent_id"] : i \in 1..Len(documents)}

\* the children handed in whose parent is a stored document
ChildrenOf(parent_id) ==
    {i \in 1..Len(call.child_chunks) : ParentIdOf(call.child_chunks[i]) = parent_id}

\* C7: get_parent_document returns no parent twice, and returns every stored
\* parent that a child handed in refers to
C7_EachReferencedParentOnce ==
    Returned("get_parent_document") =>
        /\ \A i, j \in 1..Len(ret) :
              ret[i].metadata["parent_id"] = ret[j].metadata["parent_id"] => i = j
        /\ \A d \in Range(documents) :
              ChildrenOf(d.metadata["parent_id"]) # {} => d \in Range(ret)

\* three children of two parents, two of them siblings
C7_Witness ==
    /\ Returned("get_parent_document")
    /\ Len(call.child_chunks) = 3
    /\ \A i \in 1..3 : ParentIdOf(call.child_chunks[i]) \in StoredParentIds
    /\ \E i, j \in 1..3 :
          /\ i # j
          /\ ParentIdOf(call.child_chunks[i]) = ParentIdOf(call.child_chunks[j])
    /\ Len(ret) = 2

\* the number of distinct chunks among the children of a parent
DistinctChildren(parent_id) ==
    Cardinality({MetaGet(call.child_chunks[i].metadata, "chunk_id") :
                     i \in ChildrenOf(parent_id)})

\* where the first child of a parent stands in the input
FirstChild(parent_id) ==
    CHOOSE i \in ChildrenOf(parent_id) : \A j \in ChildrenOf(parent_id) : i <= j

\* C8: the parents stand in descending order of the number of distinct child
\* chunks that refer to them, and parents of equal number in the order in
\* which their first child stands in the input
C8_OrderedByDistinctChildren ==
    Returned("get_parent_document") =>
        \A i, j \in 1..Len(ret) :
            i < j =>
                LET a == ret[i].metadata["parent_id"]
                    b == ret[j].metadata["parent_id"]
                IN  \/ DistinctChildren(a) > DistinctChildren(b)
                    \/ /\ DistinctChildren(a) = DistinctChildren(b)
                       /\ FirstChild(a) < FirstChild(b)

Orphaned(doc) == ParentIdOf(doc) \notin StoredParentIds

\* the children handed in without the orphaned ones, in their order
RECURSIVE WithoutOrphans(_)
WithoutOrphans(child_chunks) ==
    IF child_chunks = <<>> THEN <<>>
    ELSE IF Orphaned(Head(child_chunks)) THEN WithoutOrphans(Tail(child_chunks))
         ELSE <<Head(child_chunks)>> \o WithoutOrphans(Tail(child_chunks))

\* C9: a child whose parent_id is absent or names no stored document never
\* makes get_parent_document raise; every document returned is a stored one,
\* and the list returned is the one the call returns when handed the other
\* children alone
C9_OrphansAreLeftOut ==
    Returned("get_parent_document") =>
        /\ raised = ""
        /\ \A i \in 1..Len(ret) : ret[i] \in Range(documents)
        /\ ret = ParentDocuments(documents, WithoutOrphans(call.child_chunks)).value

\* a child with an unknown parent_id and a child without one, handed in
\* before a child of a stored parent
C9_Witness ==
    /\ Returned("get_parent_document")
    /\ Len(call.child_chunks) = 3
    /\ "parent_id" \notin DOMAIN call.child_chunks[1].metadata
    /\ /\ "parent_id" \in DOMAIN call.child_chunks[2].metadata
       /\ Orphaned(call.child_chunks[2])
    /\ ~ Orphaned(call.child_chunks[3])
    /\ Len(ret) = 1
    /\ raised = ""

\* C10: a serving call leaves the stored documents, the stored chunks and the
\* parent-child map as they were, and fusion leaves nothing behind in the
\* Documents the retrievers hold
C10_ServingLeavesStoreUntouched ==
    pc = "returned" =>
        /\ documents = CorpusDocuments
        /\ chunks = CorpusChunks
        /\ parent_child_map = CorpusMap
        /\ vs_docs = CorpusChunks
        /\ bm_docs = CorpusChunks


\* the stores before any call
CorpusStores == [chunks |-> CorpusChunks, vs |-> CorpusChunks, bm |-> CorpusChunks]

\* C11: a hybrid_search that ran beside another returns the ranked chunks, and
\* finds on each of them the fused score, that the same call returns when it
\* runs alone on the stored corpus
C11_ParallelSearchReturnsAsAlone ==
    \A t \in Tids :
        threads[t].pc = "done" =>
            LET alone == RrfRerank(CorpusStores, threads[t].vector_docs,
                                   threads[t].bm25_docs, threads[t].top_k)
            IN  /\ threads[t].ret = Take(alone.docs, threads[t].top_k)
                /\ \A i \in 1..Len(threads[t].ret) :
                      threads[t].scores[i] =
                          Deref(alone.stores, threads[t].ret[i]).metadata["rrf_score"]


\* the chunks of the current chunk list that name a parent
ChunksOfParent(parent_id) ==
    {n \in 1..Len(chunks) : MetaGet(chunks[n].metadata, "parent_id") = parent_id}

\* the header splitter gives no chunk for the content
SplitsToNothing(content) ==
    ~ SplitText(content).raised /\ SplitText(content).md_chunks = <<>>

\* C12: after chunk_documents every loaded parent document has at least one
\* chunk in the chunk list, and a document for which the header splitter
\* yields no chunk is there as one chunk, with the document's text and the
\* document's parent_id as its chunk_id
C12_EveryDocumentKeepsAChunk ==
    (Returned("chunk_documents") /\ raised = "") =>
        \A j \in 1..Len(documents) :
            LET parent_id == documents[j].metadata["parent_id"]
                own       == ChunksOfParent(parent_id)
            IN  /\ own # {}
                /\ SplitsToNothing(documents[j].page_content) =>
                      /\ Cardinality(own) = 1
                      /\ \A n \in own :
                            /\ chunks[n].page_content = documents[j].page_content
                            /\ MetaGet(chunks[n].metadata, "chunk_id") = parent_id

\* C13: every chunk of the current chunk list has its chunk_id as a key of
\* parent_child_map, and the value stored there is the chunk's parent_id
C13_MapAgreesWithChunks ==
    \A n \in 1..Len(chunks) :
        /\ MetaGet(chunks[n].metadata, "chunk_id") \in DOMAIN parent_child_map
        /\ parent_child_map[MetaGet(chunks[n].metadata, "chunk_id")] =
               MetaGet(chunks[n].metadata, "parent_id")

\* C14: every chunk of the current chunk list has a parent_id, and it is the
\* parent_id of a document of the current document list
C14_ChunksNameLoadedParents ==
    \A n \in 1..Len(chunks) :
        /\ MetaGet(chunks[n].metadata, "parent_id") # None
        /\ \E j \in 1..Len(documents) :
              documents[j].metadata["parent_id"] =
                  MetaGet(chunks[n].metadata, "parent_id")

\* the documents of a list that were loaded from a path
LoadedFrom(docs, path) == {j \in 1..Len(docs) : docs[j].metadata["source"] = path}

C16_FiltersRejectLabelsOutsideEnumeration ==
    (pc = "returned" /\ has_documents
       /\ call.op \in {"filter_documents_by_category",
                       "filter_documents_by_difficulty"}) =>
        LET by_category == call.op = "filter_documents_by_category"
            labels == IF by_category THEN CATEGORY_LABELS
                      ELSE Range(DIFFICULTY_LABELS)
            field  == IF by_category THEN "category" ELSE "difficulty"
            wanted == {j \in 1..Len(documents) :
                          documents[j].metadata[field] = call.label}
        IN  IF call.label \notin labels
            THEN raised = "ValueError" /\ ret = <<>>
            ELSE /\ raised = ""
                 /\ Len(ret) = Cardinality(wanted)
                 /\ \A j \in wanted : documents[j] \in Range(ret)
                 /\ \A a, b \in 1..Len(ret) :
                       a < b => \E i, j \in wanted :
                                   i < j /\ ret[a] = documents[i] /\ ret[b] = documents[j]

\* C18: an operation called before the state it needs raises ValueError:
\* chunk_documents with no document loaded, build_vector_index on an empty
\* chunk list, add_documents, save_vector_index and similarity_search without
\* a vector index, answer_query without a knowledge base
C18_EarlyCallsRaiseValueError ==
    pc = "returned" =>
        /\ (call.op = "chunk_documents" /\ (~ has_documents \/ documents = <<>>))
              => raised = "ValueError"
        /\ (call.op = "build_vector_index" /\ call.new_chunks = <<>>)
              => raised = "ValueError"
        /\ (/\ call.op \in {"add_documents", "save_vector_index", "similarity_search"}
            /\ vectorstore = None)
              => raised = "ValueError"
        /\ (call.op = "answer_query" /\ system.retrieval_module = None)
              => raised = "ValueError"


\* the first 3 * top_k results of the fusion the call ran
Fetched == Take(fused, 3 * call.top_k)

\* where the matching chunks stand among them
MatchingPlaces == {i \in 1..Len(Fetched) : MatchesAll(Fetched[i])}

\* where the a-th matching chunk stands
NthMatching(a) ==
    CHOOSE i \in MatchingPlaces :
        Cardinality({j \in MatchingPlaces : j < i}) = a - 1

\* C17: metadata_filtered_search with top_k = n asks the retrievers once,
\* takes the first 3 * n fused results, and returns the first min(n, m) of
\* the m matching chunks among them, in their order: never more than n, and
\* only the m there are when m < n
C17_OneRoundFirstMatchesOfOverFetch ==
    Returned("metadata_filtered_search") =>
        /\ rounds = 1
        /\ Len(ret) = Min(call.top_k, Cardinality(MatchingPlaces))
        /\ Len(ret) <= call.top_k
        /\ \A a \in 1..Len(ret) : ret[a] = Fetched[NthMatching(a)]

\* top_k = 1 and fusion found four chunks: the fourth, the only one that
\* matches, is past the three fetched and nothing is returned
C17_Witness ==
    /\ Returned("metadata_filtered_search")
    /\ call.top_k = 1
    /\ call.metadata_filters # <<>>
    /\ Len(fused) = 4
    /\ Len(Fetched) = 3
    /\ MatchesAll(fused[4])
    /\ MatchingPlaces = {}
    /\ ret = <<>>
    /\ rounds = 1

====
